---- MODULE Spec2Model ----
(***************************************************************************)
(* Verification model of the women's-health web application:               *)
(*   - the ProtectedRoute guard (src/components/ProtectedRoute.tsx)        *)
(*   - the rule-based predictors predictPCOS, predictMenopause and         *)
(*     predictNextCycle (src/lib/ml-predictions.ts)                        *)
(*                                                                         *)
(* JavaScript values that may be absent are modelled as strings: a         *)
(* tri-state boolean is one of "true", "false", "undefined"; null is       *)
(* "null".  Numbers with halves (the PCOS lifestyle weights) are kept as   *)
(* integers in the unit named by the definition (Score2 = twice the        *)
(* score), so every comparison of the source is an exact integer           *)
(* comparison.  Dates are day numbers.  Inputs are finite numbers (no NaN). *)
(* Math.round and Math.sqrt are computed on the exact rational values: on   *)
(* the domains below no double-precision result differs from the exact one  *)
(* at a threshold or a rounding boundary.                                   *)
(***************************************************************************)
EXTENDS Integers, Sequences, FiniteSets, TLC

VARIABLES
    \* ---- ProtectedRoute ----
    loading,        \* useAuth().loading
    user,           \* useAuth().user: "null" or a user id
    isAdmin,        \* useAuth().isAdmin: "true" | "false" | "undefined"
    requireAdmin,   \* the requireAdmin prop as passed: "true" | "false" | "undefined"
    pathname,       \* useLocation().pathname
    historyUrl,     \* the URL of the current window.history entry
    rendered,       \* what the last render of ProtectedRoute returned
    \* ---- predictPCOS ----
    pcosData,       \* PCOSInputData
    pcosResult,     \* PCOSResult of the last call, or NoResult
    \* ---- predictMenopause ----
    menoData,       \* MenopauseInputData
    menoResult,     \* MenopauseResult of the last call, or NoResult
    \* ---- predictNextCycle ----
    cycleData,      \* CycleData
    cyclePrediction, \* CyclePrediction of the last call, or NoResult
    \* ---- predictPCOSFromAPI / predictMenopauseFromAPI / predictCycleFromAPI ----
    apiKind,        \* which of the three functions was called: "pcos" | "menopause" | "cycle"
    apiData,        \* its data argument
    apiUserId,      \* whether its userId argument is given (truthy)
    apiPc,          \* the await the call is suspended at, "idle" or "done"
    apiResponseOk,  \* response.ok of the fetch: "none" (no response) | "ok" | "notok"
    apiThrown,      \* the error caught by the catch block, or NoError
    apiFormatted,   \* the mapped remote result held across the insert
    apiPromise,     \* the returned promise: pending, fulfilled with a value, or rejected
    \* ---- mergeAndFilter ----
    mergeArgs,      \* arguments of the last call, or <<>>
    mergeResult,    \* the list it returned, or NoResult
    \* ---- DoctorForm ----
    formMounted,    \* whether a DoctorForm is rendered
    formInstance,   \* how many times a DoctorForm has been mounted
    formDoctor,     \* the doctor prop of the mounted form
    formData,       \* useState formData
    formLoading,    \* useState loading
    formInFlight,   \* requests to the doctors table awaited by a handleSubmit
    formRequests,   \* every insert or update issued to the doctors table, in order
    formToasts,     \* the titles of the toasts raised, in order
    formSuccessCalls, \* how many times onSuccess was called
    formSubmits,    \* how many times handleSubmit was called
    \* ---- Doctors page: nearby search ----
    distanceLimit,  \* useState distanceLimit
    userCoords,     \* useState userCoords, NoCoords when null
    adminDoctorsState, \* useState adminDoctors
    nearbyDoctors,  \* useState nearbyDoctors
    locationLoading, \* useState locationLoading
    locationError,  \* useState locationError, "null" or the message
    geoPending,     \* distanceLimit captured by each pending getCurrentPosition call
    searchInFlight, \* the runNearbySearch calls awaiting fetchOverpassDoctors
    searchStarted,  \* how many times runNearbySearch was called
    limitChangedInFlight \* whether distanceLimit was ever changed during a search

routeVars == <<loading, user, isAdmin, requireAdmin, pathname, historyUrl, rendered>>
pcosVars  == <<pcosData, pcosResult>>
menoVars  == <<menoData, menoResult>>
cycleVars == <<cycleData, cyclePrediction>>
apiVars   == <<apiKind, apiData, apiUserId, apiPc, apiResponseOk, apiThrown,
               apiFormatted, apiPromise>>
\* The state of the components behind the predictors.
mergeVars == <<mergeArgs, mergeResult>>
formVars  == <<formMounted, formInstance, formDoctor, formData, formLoading,
               formInFlight, formRequests, formToasts, formSuccessCalls, formSubmits>>
searchVars == <<distanceLimit, userCoords, adminDoctorsState, nearbyDoctors,
                locationLoading, locationError, geoPending, searchInFlight,
                searchStarted, limitChangedInFlight>>
pageVars  == <<apiVars, mergeVars, formVars, searchVars>>
vars      == <<routeVars, pcosVars, menoVars, cycleVars, pageVars>>

\* A predictor that has not been called yet has no result.
NoResult == [called |-> FALSE]

Tri == {"true", "false", "undefined"}

\* JavaScript Math.round on the exact rational num/den (den > 0):
\* floor(num/den + 1/2), ties going up.
MathRound(num, den) == (2 * num + den) \div (2 * den)

Min(a, b) == IF a <= b THEN a ELSE b
Max(a, b) == IF a >= b THEN a ELSE b

\* arr.slice(0, k).reduce((a, b) => a + b, 0)
RECURSIVE SumTo(_, _)
SumTo(s, k) == IF k = 0 THEN 0 ELSE SumTo(s, k - 1) + s[k]

SumSeq(s) == SumTo(s, Len(s))

(***************************************************************************)
(*                            ProtectedRoute                               *)
(***************************************************************************)

Users == {"null", "u1", "u2"}
Paths == {"/login", "/signup", "/dashboard", "/admin"}

Loader           == "Loader"
NavigateLogin    == "Navigate to=/login replace"
NavigateDashboard == "Navigate to=/dashboard replace"
Children         == "children"

\* The default of the destructured prop: requireAdmin = false when omitted.
RequireAdminProp(prop) == IF prop = "undefined" THEN "false" ELSE prop

\* A guard that tests the admin flag before the session: an authenticated
\* check that comes second.
ProtectedRouteAdminFirst(l, u, a, prop) ==
    LET req == RequireAdminProp(prop) IN
    IF l THEN Loader
    ELSE IF req = "true" /\ a # "true" THEN NavigateDashboard
    ELSE IF u = "null" THEN NavigateLogin
    ELSE Children

\* A guard that lets everything but an explicit isAdmin = false through.
ProtectedRouteLooseAdmin(l, u, a, prop) ==
    LET req == RequireAdminProp(prop) IN
    IF l THEN Loader
    ELSE IF u = "null" THEN NavigateLogin
    ELSE IF req = "true" /\ a = "false" THEN NavigateDashboard
    ELSE Children

\* The value returned by one render of ProtectedRoute.
ProtectedRoute(l, u, a, prop) ==
    LET req == RequireAdminProp(prop) IN
    IF l THEN Loader
    ELSE IF u = "null" THEN NavigateLogin
    ELSE IF req = "true" /\ a # "true" THEN NavigateDashboard
    ELSE Children

\* The effect "prevent back navigation after logout": the history entry's URL
\* after the effect ran with this user and pathname.
HistoryEffect(u, p, url) ==
    IF u = "null" /\ p # "/login" /\ p # "/signup" THEN "/login" ELSE url

\* The component is mounted: first render and first run of the effect.
InitRoute ==
    /\ loading \in BOOLEAN
    /\ user \in Users
    /\ isAdmin \in Tri
    /\ requireAdmin \in Tri
    /\ pathname \in Paths
    /\ historyUrl = HistoryEffect(user, pathname, pathname)
    /\ rendered = ProtectedRoute(loading, user, isAdmin, requireAdmin)

\* useAuth() yields new values: the component renders again, and the effect
\* runs again when user changed.
AuthChange(l, u, a) ==
    /\ <<l, u, a>> # <<loading, user, isAdmin>>
    /\ loading' = l
    /\ user' = u
    /\ isAdmin' = a
    /\ rendered' = ProtectedRoute(l, u, a, requireAdmin)
    /\ historyUrl' = IF u # user THEN HistoryEffect(u, pathname, historyUrl)
                     ELSE historyUrl
    /\ UNCHANGED <<requireAdmin, pathname>>
    /\ UNCHANGED <<pcosVars, menoVars, cycleVars, pageVars>>

\* useLocation() yields a new pathname: the history entry is the new location,
\* the component renders again and the effect runs again.
LocationChange(p) ==
    /\ p # pathname
    /\ pathname' = p
    /\ rendered' = ProtectedRoute(loading, user, isAdmin, requireAdmin)
    /\ historyUrl' = HistoryEffect(user, p, p)
    /\ UNCHANGED <<loading, user, isAdmin, requireAdmin>>
    /\ UNCHANGED <<pcosVars, menoVars, cycleVars, pageVars>>

NextRoute ==
    \/ \E l \in BOOLEAN, u \in Users, a \in Tri : AuthChange(l, u, a)
    \/ \E p \in Paths : LocationChange(p)

(***************************************************************************)
(*                              predictPCOS                                *)
(***************************************************************************)

\* follicleLeft ranges over 0..MaxFollicle, follicleRight over {0, MaxFollicle}:
\* the totals reach both sides of the ultrasound threshold.
MaxFollicle == 5

BmiValues         == {24, 25, 26}
AgeValues         == {22, 41}
WeightValues      == {55, 90}
CycleLengthValues == {28, 45}
EndometriumValues == {6, 12}

PCOSInputData ==
    [age : AgeValues, weight : WeightValues, bmi : BmiValues,
     cycleRegular : BOOLEAN, cycleLength : CycleLengthValues,
     weightGain : BOOLEAN, hairGrowth : BOOLEAN, skinDarkening : BOOLEAN,
     hairLoss : BOOLEAN, pimples : BOOLEAN, fastFood : BOOLEAN,
     regularExercise : BOOLEAN,
     follicleLeft : 0..MaxFollicle, follicleRight : {0, MaxFollicle},
     endometrium : EndometriumValues]

PCOSRecsNone ==
    [diet |-> <<
        "Maintain balanced diet with whole grains",
        "Include fresh fruits and vegetables",
        "Stay hydrated with 2-3 liters water daily",
        "Include lean protein sources" >>,
     exercise |-> <<
        "Continue regular physical activity",
        "30 minutes of moderate exercise daily",
        "Mix of cardio and strength training" >>,
     lifestyle |-> <<
        "Maintain healthy sleep schedule",
        "Regular health check-ups annually",
        "Stress management practices" >>,
     needsDoctor |-> FALSE]

PCOSRecsLow ==
    [diet |-> <<
        "Low glycemic index foods (millets, oats, brown rice)",
        "Fresh vegetables (spinach, broccoli, carrot, cucumber)",
        "Fruits in moderation (apple, berries, guava)",
        "Lean protein sources (dal, paneer, eggs, fish)",
        "Healthy fats (nuts, seeds, olive oil)",
        "Drink 2-3 liters of water daily" >>,
     exercise |-> <<
        "Brisk walking - 30 minutes daily",
        "Yoga (Surya Namaskar, Anulom Vilom)",
        "Light stretching exercises",
        "Minimum 5 days per week" >>,
     lifestyle |-> <<
        "Sleep 7-8 hours daily",
        "Reduce stress through meditation",
        "Avoid late-night meals",
        "Maintain a regular daily routine" >>,
     needsDoctor |-> FALSE]

PCOSRecsMedium ==
    [diet |-> <<
        "Strict low-GI diet to reduce insulin resistance",
        "High-fiber foods (vegetables, salads, sprouts)",
        "Protein in every meal (eggs, pulses, fish)",
        "Small and frequent meals",
        "Anti-inflammatory foods (turmeric, berries, nuts)",
        "Completely avoid sugar, fast food, bakery items" >>,
     exercise |-> <<
        "Cardio workouts (walking/jogging) - 30-40 minutes",
        "Strength training - 3 to 4 days per week",
        "Yoga for hormone balance",
        "Beginner-level HIIT exercises" >>,
     lifestyle |-> <<
        "Fixed sleep and wake-up time",
        "Weight monitoring every week",
        "Reduce screen time",
        "Stress management is mandatory" >>,
     needsDoctor |-> TRUE]

PCOSRecsHigh ==
    [diet |-> <<
        "Very strict low-glycemic-index diet",
        "High-fiber vegetables in every meal",
        "Lean protein with each meal",
        "Anti-inflammatory foods only",
        "Complete elimination of sugar, maida, fried food",
        "Avoid alcohol, soft drinks, and packaged foods",
        "Calorie-controlled meals under medical guidance" >>,
     exercise |-> <<
        "HIIT workouts (doctor-approved)",
        "Resistance training for insulin sensitivity",
        "Cardio exercises - 45 to 60 minutes daily",
        "Daily yoga for hormonal balance",
        "Consistency is critical" >>,
     lifestyle |-> <<
        "Strict daily routine",
        "Mental health care and counseling if needed",
        "Avoid crash dieting",
        "Track menstrual cycle and symptoms monthly",
        "Long-term lifestyle discipline required" >>,
     needsDoctor |-> TRUE]

getPCOSRecommendations(severity) ==
    IF severity = "none" THEN PCOSRecsNone
    ELSE IF severity = "low" THEN PCOSRecsLow
    ELSE IF severity = "medium" THEN PCOSRecsMedium
    ELSE PCOSRecsHigh

\* The component scores of predictPCOS.  lifestyleScore2 is twice the
\* lifestyle score (0.5 per factor), so that it is an integer.
cycleScore(data) == IF data.cycleRegular THEN 0 ELSE 1

hormonalScore(data) ==
    (IF data.hairGrowth THEN 1 ELSE 0) +
    (IF data.skinDarkening THEN 1 ELSE 0) +
    (IF data.hairLoss THEN 1 ELSE 0) +
    (IF data.pimples THEN 1 ELSE 0)

ultrasoundScore(data) ==
    LET totalFollicles == data.follicleLeft + data.follicleRight
    IN  IF totalFollicles >= 10 THEN 1 ELSE 0

metabolicScore(data) == IF data.bmi >= 25 THEN 1 ELSE 0

lifestyleScore2(data) ==
    (IF data.weightGain THEN 1 ELSE 0) +
    (IF data.fastFood THEN 1 ELSE 0) +
    (IF ~data.regularExercise THEN 1 ELSE 0)

\* A total that also counts a long cycle as half a point.
totalScore2WithCycleLength(data) ==
    2 * (2 * cycleScore(data) + 2 * ultrasoundScore(data)
         + hormonalScore(data) + metabolicScore(data))
    + lifestyleScore2(data)
    + (IF data.cycleLength > 35 THEN 1 ELSE 0)

\* Twice the weighted total score.
totalScore2(data) ==
    2 * (2 * cycleScore(data) + 2 * ultrasoundScore(data)
         + hormonalScore(data) + metabolicScore(data))
    + lifestyleScore2(data)

\* A floor of 50 instead of 30 for a positive detection.
PCOSRiskPercentageFloor50(data) ==
    LET hasPCOS == totalScore2(data) >= 8
        rounded == MathRound(100 * totalScore2(data), 18)
    IN  Min(100, Max(IF hasPCOS THEN 50 ELSE 0, rounded))

\* riskPercentage: Math.round((totalScore / 9) * 100), raised to 30 for a
\* positive detection, capped at 100.
PCOSRiskPercentage(data) ==
    LET hasPCOS == totalScore2(data) >= 8
        rounded == MathRound(100 * totalScore2(data), 18)
    IN  Min(100, Max(IF hasPCOS THEN 30 ELSE 0, rounded))

\* Severity buckets with the medium bucket starting at 60.
PCOSSeverityMedium60(hasPCOS, riskPercentage) ==
    IF ~hasPCOS THEN "none"
    ELSE IF riskPercentage < 60 THEN "low"
    ELSE IF riskPercentage < 70 THEN "medium"
    ELSE "high"

PCOSSeverity(hasPCOS, riskPercentage) ==
    IF ~hasPCOS THEN "none"
    ELSE IF riskPercentage < 50 THEN "low"
    ELSE IF riskPercentage < 70 THEN "medium"
    ELSE "high"

predictPCOS(data) ==
    LET hasPCOS        == totalScore2(data) >= 8
        riskPercentage == PCOSRiskPercentage(data)
        severity       == PCOSSeverity(hasPCOS, riskPercentage)
    IN  [called          |-> TRUE,
         hasPCOS         |-> hasPCOS,
         riskPercentage  |-> riskPercentage,
         severity        |-> severity,
         breakdown       |-> [cycleScore      |-> cycleScore(data) * 2,
                              hormonalScore   |-> hormonalScore(data),
                              ultrasoundScore |-> ultrasoundScore(data) * 2,
                              metabolicScore  |-> metabolicScore(data)],
         recommendations |-> getPCOSRecommendations(severity)]

InitPCOS ==
    /\ pcosData \in PCOSInputData
    /\ pcosResult = NoResult

\* One call predictPCOS(pcosData).
PredictPCOS ==
    /\ pcosResult = NoResult
    /\ pcosResult' = predictPCOS(pcosData)
    /\ UNCHANGED <<pcosData, routeVars, menoVars, cycleVars, pageVars>>

NextPCOS == PredictPCOS

(***************************************************************************)
(*                            predictMenopause                             *)
(***************************************************************************)

\* yearsSinceLastPeriod is kept in quarters of a year (field
\* yearsSinceLastPeriod4 = 4 * yearsSinceLastPeriod), ranging over
\* 0..MaxQuarters: 0, 0.25, 0.5, ... years.
MaxQuarters == 8

MenoAgeValues  == {39, 40, 45, 50, 55}
FshValues      == {24, 25, 40}
EstrogenValues == {30, 50, 51}

MenopauseInputData ==
    [age : MenoAgeValues, estrogenLevel : EstrogenValues, fshLevel : FshValues,
     yearsSinceLastPeriod4 : 0..MaxQuarters,
     irregularPeriods : BOOLEAN, missedPeriods : BOOLEAN, hotFlashes : BOOLEAN,
     nightSweats : BOOLEAN, sleepProblems : BOOLEAN, vaginalDryness : BOOLEAN,
     jointPain : BOOLEAN]

MenoRecsPre ==
    [diet |-> <<
        "Maintain balanced nutrition",
        "Include calcium-rich foods",
        "Stay hydrated",
        "Moderate caffeine intake" >>,
     exercise |-> <<
        "Regular cardio and strength training",
        "Maintain bone health with weight-bearing exercises",
        "Stay active 30 minutes daily" >>,
     lifestyle |-> <<
        "Regular health check-ups",
        "Stress management",
        "Quality sleep habits" >>,
     needsDoctor |-> FALSE]

MenoRecsPeri ==
    [diet |-> <<
        "Low-GI foods: oats, brown rice, whole wheat roti",
        "High-fiber foods: salads, sprouts, flax seeds",
        "Protein sources: eggs, pulses, soy, paneer",
        "Healthy fats: nuts, seeds, olive oil",
        "Calcium-rich foods: milk, curd, ragi",
        "Vitamin-D foods or supplements (doctor advice)",
        "Avoid: Sugar, bakery items, excess caffeine" >>,
     exercise |-> <<
        "Brisk walking - 30 to 40 minutes daily",
        "Yoga: Anulom-Vilom, Bhramari, Surya Namaskar",
        "Strength training - 2 to 3 days per week",
        "Light cardio (cycling, skipping)" >>,
     lifestyle |-> <<
        "Fixed sleep and wake-up time",
        "Daily meditation or breathing exercises",
        "Stress management is very important",
        "Maintain healthy body weight" >>,
     needsDoctor |-> TRUE]

MenoRecsPost ==
    [diet |-> <<
        "High-calcium foods: milk, cheese, curd, sesame seeds",
        "Vitamin-D rich foods or supplements",
        "High-protein diet: lentils, eggs, fish, tofu",
        "Anti-inflammatory foods: turmeric, berries, green tea",
        "Plenty of fruits and vegetables",
        "Avoid: Fried food, excess salt, sugary foods" >>,
     exercise |-> <<
        "Weight-bearing exercises: walking, stair climbing",
        "Light strength training (resistance bands, dumbbells)",
        "Balance exercises to prevent falls",
        "Stretching and flexibility exercises" >>,
     lifestyle |-> <<
        "Regular medical check-ups",
        "Bone density test (doctor advice)",
        "Avoid smoking and alcohol",
        "Maintain a stress-free routine" >>,
     needsDoctor |-> TRUE]

getMenopauseRecommendations(stage) ==
    IF stage = "Pre-Menopause" THEN MenoRecsPre
    ELSE IF stage = "Peri-Menopause" THEN MenoRecsPeri
    ELSE MenoRecsPost

\* A stage rule that needs more than one year without a period.
MenopauseStageStrict(data) ==
    IF data.yearsSinceLastPeriod4 > 4 THEN "Post-Menopause"
    ELSE IF data.age >= 40
            /\ (data.irregularPeriods \/ data.missedPeriods \/ data.hotFlashes)
         THEN "Peri-Menopause"
    ELSE "Pre-Menopause"

\* The medical rule-based labelling.
MenopauseStage(data) ==
    IF data.yearsSinceLastPeriod4 >= 4 THEN "Post-Menopause"
    ELSE IF data.age >= 40
            /\ (data.irregularPeriods \/ data.missedPeriods \/ data.hotFlashes)
         THEN "Peri-Menopause"
    ELSE "Pre-Menopause"

ageScore(data) ==
    IF data.age >= 55 THEN 4
    ELSE IF data.age >= 50 THEN 3
    ELSE IF data.age >= 45 THEN 2
    ELSE IF data.age >= 40 THEN 1
    ELSE 0

hormoneScore(data) ==
    (IF data.fshLevel >= 40 THEN 2
     ELSE IF data.fshLevel >= 25 THEN 1 ELSE 0)
    + (IF data.estrogenLevel <= 30 THEN 2
       ELSE IF data.estrogenLevel <= 50 THEN 1 ELSE 0)

symptomScore(data) ==
    (IF data.irregularPeriods THEN 1 ELSE 0) +
    (IF data.missedPeriods THEN 1 ELSE 0) +
    (IF data.hotFlashes THEN 1 ELSE 0) +
    (IF data.nightSweats THEN 1 ELSE 0) +
    (IF data.sleepProblems THEN 1 ELSE 0) +
    (IF data.vaginalDryness THEN 1 ELSE 0) +
    (IF data.jointPain THEN 1 ELSE 0)

\* A period score that keeps growing after two years.
periodScoreUncapped(data) ==
    IF data.yearsSinceLastPeriod4 >= 8 THEN 5
    ELSE IF data.yearsSinceLastPeriod4 >= 4 THEN 3
    ELSE IF data.yearsSinceLastPeriod4 >= 2 THEN 2
    ELSE IF data.yearsSinceLastPeriod4 > 0 THEN 1
    ELSE 0

periodScore(data) ==
    IF data.yearsSinceLastPeriod4 >= 8 THEN 4
    ELSE IF data.yearsSinceLastPeriod4 >= 4 THEN 3
    ELSE IF data.yearsSinceLastPeriod4 >= 2 THEN 2
    ELSE IF data.yearsSinceLastPeriod4 > 0 THEN 1
    ELSE 0

maxScore == 19

predictMenopause(data) ==
    LET stage      == MenopauseStage(data)
        totalScore == ageScore(data) + hormoneScore(data)
                      + symptomScore(data) + periodScore(data)
        rounded    == MathRound(100 * totalScore, maxScore)
    IN  [called               |-> TRUE,
         stage                |-> stage,
         riskPercentage       |-> Min(100, Max(0, rounded)),
         hasMenopauseSymptoms |-> stage # "Pre-Menopause",
         breakdown            |-> [ageScore     |-> ageScore(data),
                                   hormoneScore |-> hormoneScore(data),
                                   symptomScore |-> symptomScore(data),
                                   periodScore  |-> periodScore(data)],
         recommendations      |-> getMenopauseRecommendations(stage)]

InitMenopause ==
    /\ menoData \in MenopauseInputData
    /\ menoResult = NoResult

\* One call predictMenopause(menoData).
PredictMenopause ==
    /\ menoResult = NoResult
    /\ menoResult' = predictMenopause(menoData)
    /\ UNCHANGED <<menoData, routeVars, pcosVars, cycleVars, pageVars>>

NextMenopause == PredictMenopause

(***************************************************************************)
(*                            predictNextCycle                             *)
(***************************************************************************)

\* The number of cycles predictNextCycle looks at: cycleHistory.slice(-6).
RecentCount == 6

\* cycleHistory ranges over the sequences of at most RecentCount cycle lengths
\* from CycleValues, and over the full ones among them preceded by at most
\* MaxOlder older cycle lengths from OlderValues.
MaxOlder == 1

\* Cycle lengths: short (< 21), two regular ones, long (> 35).
CycleValues == {20, 26, 30, 36}
OlderValues == {36}

\* lastPeriodStart as a day number.
StartValues == {100}

\* An optional number (stressLevel?, sleepHours?).
NoNumber == [given |-> FALSE, value |-> 0]
Num(n)   == [given |-> TRUE, value |-> n]

\* The optional symptoms object and its optional fields; bloating and fatigue
\* are never read by predictNextCycle.
NoSymptoms == [given |-> FALSE, cramps |-> "undefined", mood |-> "undefined",
               acne |-> "undefined"]
SymptomsValues ==
    { NoSymptoms,
      [given |-> TRUE, cramps |-> "severe", mood |-> "stable",    acne |-> "true"],
      [given |-> TRUE, cramps |-> "mild",   mood |-> "irritable", acne |-> "true"],
      [given |-> TRUE, cramps |-> "mild",   mood |-> "stable",    acne |-> "true"],
      [given |-> TRUE, cramps |-> "severe", mood |-> "irritable", acne |-> "false"] }

StressValues == {NoNumber, Num(4)}
SleepValues  == {NoNumber, Num(5)}

Histories ==
    UNION { [1..n -> CycleValues] : n \in 0..RecentCount }
    \cup { older \o recent :
              older \in UNION { [1..k -> OlderValues] : k \in 1..MaxOlder },
              recent \in [1..RecentCount -> CycleValues] }

CycleData ==
    [cycleHistory : Histories, lastPeriodStart : StartValues,
     symptoms : SymptomsValues, stressLevel : StressValues,
     sleepHours : SleepValues]

\* Largest r in lo..hi with r * r <= x (lo * lo <= x < (hi + 1) * (hi + 1)).
RECURSIVE ISqrtIn(_, _, _)
ISqrtIn(x, lo, hi) ==
    IF lo >= hi THEN lo
    ELSE LET mid == (lo + hi + 1) \div 2
         IN  IF mid * mid <= x THEN ISqrtIn(x, mid, hi)
             ELSE ISqrtIn(x, lo, mid - 1)

\* floor(sqrt(x)) for 0 <= x < 2^31 (46340^2 is the largest square below 2^31).
ISqrt(x) == ISqrtIn(x, 0, Min(x, 46340))

\* cycleHistory.slice(-5)
recentCyclesLastFive(cycleHistory) ==
    SubSeq(cycleHistory, Max(1, Len(cycleHistory) - 4), Len(cycleHistory))

\* cycleHistory.slice(-6)
recentCycles(cycleHistory) ==
    SubSeq(cycleHistory, Max(1, Len(cycleHistory) - RecentCount + 1),
           Len(cycleHistory))

\* weights[i] = i + 1 for the 0-based index i: the 1-based position.
\* totalWeight = weights.reduce((a, b) => a + b, 0)
RECURSIVE WeightsTo(_)
WeightsTo(k) == IF k = 0 THEN 0 ELSE WeightsTo(k - 1) + k

totalWeight(recent) == WeightsTo(Len(recent))

\* The numerator of weightedAverage: the sum of cycle * weights[i].
RECURSIVE WeightedSumTo(_, _)
WeightedSumTo(s, k) == IF k = 0 THEN 0 ELSE WeightedSumTo(s, k - 1) + s[k] * k

weightedSum(recent) == WeightedSumTo(recent, Len(recent))

\* Math.round(weightedAverage)
averageCycleLengthOf(recent) == MathRound(weightedSum(recent), totalWeight(recent))

RECURSIVE SumSquaresTo(_, _)
SumSquaresTo(s, k) == IF k = 0 THEN 0 ELSE SumSquaresTo(s, k - 1) + s[k] * s[k]

\* variance * n^2, an integer: with mean = sum / n,
\* sum((c - mean)^2) / n = (n * sum(c^2) - sum(c)^2) / n^2.
varianceN2(recent) ==
    LET n   == Len(recent)
        sum == SumSeq(recent)
    IN  n * SumSquaresTo(recent, n) - sum * sum

\* variability <= k, for variability = sqrt(variance) and an integer k >= 0.
variabilityAtMost(recent, k) ==
    varianceN2(recent) <= k * k * Len(recent) * Len(recent)

\* Math.round(variability * 10), i.e. cycleVariability in tenths of a day:
\* floor(10 * sqrt(varianceN2) / n + 1/2)
\*   = floor((floor(20 * sqrt(varianceN2)) + n) / (2 * n)).
cycleVariability10Of(recent) ==
    LET n == Len(recent)
    IN  (ISqrt(400 * varianceN2(recent)) + n) \div (2 * n)

\* An irregularity test that forgets the short cycles.
isIrregularOfLongOnly(recent) ==
    \/ ~variabilityAtMost(recent, 7)
    \/ \E i \in 1..Len(recent) : recent[i] > 35

isIrregularOf(recent) ==
    \/ ~variabilityAtMost(recent, 7)
    \/ \E i \in 1..Len(recent) : recent[i] < 21 \/ recent[i] > 35

\* The JavaScript value of
\*   longCycles >= 3 || (isIrregular && symptoms?.acne &&
\*     (symptoms?.cramps === 'severe' || symptoms?.mood === 'irritable'))
\* that is "true", "false" or "undefined" (&& yields its first falsy operand).
pcosRiskFlagOf(recent, symptoms) ==
    LET longCycles == Cardinality({i \in 1..Len(recent) : recent[i] > 35})
    IN  IF longCycles >= 3 THEN "true"
        ELSE IF ~isIrregularOf(recent) THEN "false"
        ELSE IF symptoms.acne # "true" THEN symptoms.acne
        ELSE IF symptoms.cramps = "severe" \/ symptoms.mood = "irritable"
             THEN "true"
        ELSE "false"

\* Confidence levels with strict comparisons (variability < 2, < 5).
confidenceLevelOfStrict(cycleHistory, recent) ==
    LET n2 == Len(recent) * Len(recent)
    IN  IF varianceN2(recent) < 4 * n2 /\ Len(cycleHistory) >= 3 THEN "high"
        ELSE IF varianceN2(recent) < 25 * n2 \/ Len(cycleHistory) >= 6 THEN "medium"
        ELSE "low"

confidenceLevelOf(cycleHistory, recent) ==
    IF variabilityAtMost(recent, 2) /\ Len(cycleHistory) >= 3 THEN "high"
    ELSE IF variabilityAtMost(recent, 5) \/ Len(cycleHistory) >= 6 THEN "medium"
    ELSE "low"

delayAdjustmentOf(stressLevel, sleepHours) ==
    (IF stressLevel.given /\ stressLevel.value # 0 /\ stressLevel.value >= 4
     THEN 2 ELSE 0)
    + (IF sleepHours.given /\ sleepHours.value # 0 /\ sleepHours.value < 6
       THEN 1 ELSE 0)

\* A default branch that still applies the stress and sleep delay.
predictNextCycleEmptyWithDelay(data) ==
    [called             |-> TRUE,
     predictedStartDate |-> data.lastPeriodStart + 28
                            + delayAdjustmentOf(data.stressLevel, data.sleepHours),
     confidenceLevel    |-> "low",
     averageCycleLength |-> 28,
     cycleVariability10 |-> 0,
     isIrregular        |-> FALSE,
     pcosRiskFlag       |-> "false",
     delayAdjustment    |-> delayAdjustmentOf(data.stressLevel, data.sleepHours)]

\* The default prediction with no history.
predictNextCycleEmpty(data) ==
    [called             |-> TRUE,
     predictedStartDate |-> data.lastPeriodStart + 28,
     confidenceLevel    |-> "low",
     averageCycleLength |-> 28,
     cycleVariability10 |-> 0,
     isIrregular        |-> FALSE,
     pcosRiskFlag       |-> "false",
     delayAdjustment    |-> 0]

predictNextCycle(data) ==
    IF Len(data.cycleHistory) = 0 THEN predictNextCycleEmpty(data)
    ELSE
    LET recent          == recentCycles(data.cycleHistory)
        delayAdjustment == delayAdjustmentOf(data.stressLevel, data.sleepHours)
    IN  [called             |-> TRUE,
         predictedStartDate |-> data.lastPeriodStart
                                + averageCycleLengthOf(recent) + delayAdjustment,
         confidenceLevel    |-> confidenceLevelOf(data.cycleHistory, recent),
         averageCycleLength |-> averageCycleLengthOf(recent),
         cycleVariability10 |-> cycleVariability10Of(recent),
         isIrregular        |-> isIrregularOf(recent),
         pcosRiskFlag       |-> pcosRiskFlagOf(recent, data.symptoms),
         delayAdjustment    |-> delayAdjustment]

InitCycle ==
    /\ cycleData \in CycleData
    /\ cyclePrediction = NoResult

\* One call predictNextCycle(cycleData).
PredictNextCycle ==
    /\ cyclePrediction = NoResult
    /\ cyclePrediction' = predictNextCycle(cycleData)
    /\ UNCHANGED <<cycleData, routeVars, pcosVars, menoVars, pageVars>>

NextCycle == PredictNextCycle

(***************************************************************************)
(*     predictPCOSFromAPI, predictMenopauseFromAPI, predictCycleFromAPI    *)
(*                                                                         *)
(* One call is a sequence of steps, one per await: the fetch, the read of  *)
(* the body (response.text() or response.json()), the insert of the        *)
(* assessment.  What the network, the backend and the database do at each  *)
(* await is chosen freely.                                                 *)
(***************************************************************************)

ApiKinds == {"pcos", "menopause", "cycle"}

\* The data passed to a call: two inputs of each predictor.
ApiInputs(kind) ==
    IF kind = "pcos" THEN
        { [age |-> 22, weight |-> 55, bmi |-> 24, cycleRegular |-> TRUE,
           cycleLength |-> 28, weightGain |-> FALSE, hairGrowth |-> FALSE,
           skinDarkening |-> FALSE, hairLoss |-> FALSE, pimples |-> FALSE,
           fastFood |-> FALSE, regularExercise |-> TRUE, follicleLeft |-> 0,
           follicleRight |-> 0, endometrium |-> 6],
          [age |-> 41, weight |-> 90, bmi |-> 26, cycleRegular |-> FALSE,
           cycleLength |-> 45, weightGain |-> TRUE, hairGrowth |-> TRUE,
           skinDarkening |-> FALSE, hairLoss |-> TRUE, pimples |-> TRUE,
           fastFood |-> TRUE, regularExercise |-> FALSE, follicleLeft |-> 5,
           follicleRight |-> 5, endometrium |-> 12] }
    ELSE IF kind = "menopause" THEN
        { [age |-> 39, estrogenLevel |-> 51, fshLevel |-> 24,
           yearsSinceLastPeriod4 |-> 0, irregularPeriods |-> FALSE,
           missedPeriods |-> FALSE, hotFlashes |-> FALSE, nightSweats |-> FALSE,
           sleepProblems |-> FALSE, vaginalDryness |-> FALSE, jointPain |-> FALSE],
          [age |-> 50, estrogenLevel |-> 30, fshLevel |-> 40,
           yearsSinceLastPeriod4 |-> 2, irregularPeriods |-> TRUE,
           missedPeriods |-> FALSE, hotFlashes |-> TRUE, nightSweats |-> TRUE,
           sleepProblems |-> FALSE, vaginalDryness |-> FALSE, jointPain |-> TRUE] }
    ELSE
        { [cycleHistory |-> <<>>, lastPeriodStart |-> 100, symptoms |-> NoSymptoms,
           stressLevel |-> NoNumber, sleepHours |-> NoNumber],
          [cycleHistory |-> <<26, 30, 36, 36, 36>>, lastPeriodStart |-> 100,
           symptoms |-> NoSymptoms, stressLevel |-> Num(4), sleepHours |-> Num(5)] }

\* The local predictor of each function.
LocalPredictor(kind, data) ==
    IF kind = "pcos" THEN predictPCOS(data)
    ELSE IF kind = "menopause" THEN predictMenopause(data)
    ELSE predictNextCycle(data)

\* A thrown Error, by its message; NoError when nothing was thrown.
NoError == [thrown |-> FALSE, message |-> ""]
Error(message) == [thrown |-> TRUE, message |-> message]

\* What fetch() rejects with.
FetchErrors == {Error("Failed to fetch")}
\* What response.text() and response.json() reject with.
BodyReadErrors == {Error("body stream already read"),
                   Error("Unexpected token < in JSON")}
\* What the awaited insert may reject with.
InsertErrors == {Error("insert failed")}

\* The bodies response.json() resolves to: JSON null, an object without the
\* nested fields the mapping reads (recommendations, predictedStartDate), a
\* complete result.
JsonBodies == {"null", "partial", "full"}

\* { ...result, _meta: meta }
SpreadMeta(result, meta) ==
    [f \in (DOMAIN result) \cup {"_meta"} |->
        IF f = "_meta" THEN meta ELSE result[f]]

\* The object built from the remote body before the insert: formattedResult
\* (pcos), result itself (menopause), formatted (cycle).  Spreading null gives
\* no fields.
RemoteResult(kind, body) ==
    IF body = "null" THEN <<>>
    ELSE [source |-> "remote", kind |-> kind, complete |-> (body = "full")]

\* The error thrown synchronously between response.json() and the return,
\* or NoError:
\*  pcos: result.hasPCOS of null, result.recommendations.diet of undefined;
\*  menopause: result.riskPercentage of null, read only when userId is given;
\*  cycle: result.predictedStartDate of null; with userId,
\*         toISOString() of the Invalid Date made from a missing date.
MappingError(kind, body, userIdGiven) ==
    IF kind = "pcos" THEN
        IF body \in {"null", "partial"}
        THEN Error("Cannot read properties") ELSE NoError
    ELSE IF kind = "menopause" THEN
        IF body = "null" /\ userIdGiven
        THEN Error("Cannot read properties") ELSE NoError
    ELSE
        IF body = "null" THEN Error("Cannot read properties")
        ELSE IF body = "partial" /\ userIdGiven THEN Error("Invalid time value")
        ELSE NoError

\* The error of the !response.ok branch once the body text is read (pcos and
\* menopause), or thrown at once (cycle).
NotOkError(kind) ==
    IF kind = "cycle" THEN Error("Backend error")
    ELSE Error("Backend validation failed")

\* if (!response.ok) ... throw: only an ok response is read as a result.
ResponseUsable(ok) == ok

\* A catch block that rethrows when the backend answered with an error.
CatchRethrowBackend(kind, data, error) ==
    IF error.message = NotOkError(kind).message
    THEN [state |-> "rejected", value |-> error]
    ELSE [state |-> "fulfilled",
          value |-> SpreadMeta(LocalPredictor(kind, data),
                               [usedAPI |-> FALSE, error |-> error.message])]

\* The catch block: the promise is fulfilled with
\* { ...localResult, _meta: { usedAPI: false, error: error.message } }.
Catch(kind, data, error) ==
    [state |-> "fulfilled",
     value |-> SpreadMeta(LocalPredictor(kind, data),
                          [usedAPI |-> FALSE, error |-> error.message])]

\* return { ...formatted, _meta: { usedAPI: true } }
ReturnRemote(formatted) ==
    [state |-> "fulfilled", value |-> SpreadMeta(formatted, [usedAPI |-> TRUE])]

Pending == [state |-> "pending"]

InitApi ==
    /\ apiKind = "pcos"
    /\ apiData = <<>>
    /\ apiUserId = FALSE
    /\ apiPc = "idle"
    /\ apiResponseOk = "none"
    /\ apiThrown = NoError
    /\ apiFormatted = <<>>
    /\ apiPromise = Pending

ApiOthersUnchanged ==
    UNCHANGED <<routeVars, pcosVars, menoVars, cycleVars, mergeVars, formVars, searchVars>>

\* The try block ends in the catch block with this error.
ApiCaught(error) ==
    /\ apiThrown' = error
    /\ apiPromise' = Catch(apiKind, apiData, error)
    /\ apiPc' = "done"

\* predictXFromAPI(data, userId) is called: the fetch is started.
ApiCall(kind, data, userIdGiven) ==
    /\ apiPc \in {"idle", "done"}
    /\ apiKind' = kind
    /\ apiData' = data
    /\ apiUserId' = userIdGiven
    /\ apiPc' = "fetch"
    /\ apiResponseOk' = "none"
    /\ apiThrown' = NoError
    /\ apiFormatted' = <<>>
    /\ apiPromise' = Pending
    /\ ApiOthersUnchanged

\* fetch() rejects.
ApiFetchRejects(error) ==
    /\ apiPc = "fetch"
    /\ ApiCaught(error)
    /\ UNCHANGED <<apiKind, apiData, apiUserId, apiResponseOk, apiFormatted>>
    /\ ApiOthersUnchanged

\* fetch() resolves with a response whose ok flag is ok.
ApiFetchResolves(ok) ==
    /\ apiPc = "fetch"
    /\ apiResponseOk' = IF ok THEN "ok" ELSE "notok"
    /\ IF ResponseUsable(ok)
       THEN apiPc' = "json" /\ UNCHANGED <<apiThrown, apiPromise>>
       ELSE IF apiKind = "cycle"
       THEN ApiCaught(NotOkError(apiKind))
       ELSE apiPc' = "text" /\ UNCHANGED <<apiThrown, apiPromise>>
    /\ UNCHANGED <<apiKind, apiData, apiUserId, apiFormatted>>
    /\ ApiOthersUnchanged

\* await response.text() settles in the !response.ok branch: its rejection,
\* or else the Error thrown after it, is caught.
ApiTextSettles(error) ==
    /\ apiPc = "text"
    /\ ApiCaught(IF error.thrown THEN error ELSE NotOkError(apiKind))
    /\ UNCHANGED <<apiKind, apiData, apiUserId, apiResponseOk, apiFormatted>>
    /\ ApiOthersUnchanged

\* await response.json() rejects.
ApiJsonRejects(error) ==
    /\ apiPc = "json"
    /\ ApiCaught(error)
    /\ UNCHANGED <<apiKind, apiData, apiUserId, apiResponseOk, apiFormatted>>
    /\ ApiOthersUnchanged

\* await response.json() resolves with a body: the result is mapped, and
\* either the insert is started (userId given) or the result is returned.
ApiJsonResolves(body) ==
    /\ apiPc = "json"
    /\ LET error == MappingError(apiKind, body, apiUserId) IN
       IF error.thrown
       THEN ApiCaught(error) /\ UNCHANGED apiFormatted
       ELSE IF apiUserId
       THEN /\ apiFormatted' = RemoteResult(apiKind, body)
            /\ apiPc' = "insert"
            /\ UNCHANGED <<apiThrown, apiPromise>>
       ELSE /\ apiPromise' = ReturnRemote(RemoteResult(apiKind, body))
            /\ apiPc' = "done"
            /\ UNCHANGED <<apiThrown, apiFormatted>>
    /\ UNCHANGED <<apiKind, apiData, apiUserId, apiResponseOk>>
    /\ ApiOthersUnchanged

\* The awaited insert resolves (its { error } is not looked at): the remote
\* result is returned.
ApiInsertResolves ==
    /\ apiPc = "insert"
    /\ apiPromise' = ReturnRemote(apiFormatted)
    /\ apiPc' = "done"
    /\ UNCHANGED <<apiKind, apiData, apiUserId, apiResponseOk, apiThrown, apiFormatted>>
    /\ ApiOthersUnchanged

\* The awaited insert rejects.
ApiInsertRejects(error) ==
    /\ apiPc = "insert"
    /\ ApiCaught(error)
    /\ UNCHANGED <<apiKind, apiData, apiUserId, apiResponseOk, apiFormatted>>
    /\ ApiOthersUnchanged

NextApi ==
    \/ \E kind \in ApiKinds, userIdGiven \in BOOLEAN :
           \E data \in ApiInputs(kind) : ApiCall(kind, data, userIdGiven)
    \/ \E error \in FetchErrors : ApiFetchRejects(error)
    \/ \E ok \in BOOLEAN : ApiFetchResolves(ok)
    \/ \E error \in BodyReadErrors \cup {NoError} : ApiTextSettles(error)
    \/ \E error \in BodyReadErrors : ApiJsonRejects(error)
    \/ \E body \in JsonBodies : ApiJsonResolves(body)
    \/ ApiInsertResolves
    \/ \E error \in InsertErrors : ApiInsertRejects(error)

(***************************************************************************)
(*                     Doctors page: mergeAndFilter                        *)
(*                                                                         *)
(* Coordinates are kilometres on one meridian, so that the great-circle    *)
(* distance of two points is the difference of their latitudes.  An        *)
(* optional number (latitude, longitude, distance) is NoNumber when null   *)
(* or undefined.                                                           *)
(***************************************************************************)

\* Longest list of doctors passed in either argument.
MaxDoctors == 2

\* String.prototype.toLowerCase on the names used.
ToLowerCase(name) ==
    IF name = "Dr A" THEN "dr a"
    ELSE IF name = "Dr B" THEN "dr b"
    ELSE IF name = "Dr C" THEN "dr c"
    ELSE name

\* Rows of the doctors table as fetchAdminDoctors delivers them.
AdminDoctorValues ==
    { [name |-> n, isVerified |-> TRUE, latitude |-> c[1], longitude |-> c[2],
       distance |-> NoNumber] :
        n \in {"Dr A", "Dr C"},
        c \in { <<NoNumber, NoNumber>>, <<Num(3), Num(0)>>,
                <<Num(8), Num(0)>>, <<Num(3), NoNumber>> } }

\* Doctors as fetchOverpassDoctors delivers them; 999 stands for an element
\* without coordinates.
ApiDoctorValues ==
    { [name |-> n, isVerified |-> FALSE, latitude |-> NoNumber,
       longitude |-> NoNumber, distance |-> Num(d)] :
        n \in {"dr a", "Dr B"}, d \in {3, 8, 999} }

LimitValues == {5, 10}
UserLatValues == {0}
UserLonValues == {0}

SeqsUpTo(S, n) == UNION { [1..k -> S] : k \in 0..n }

calculateDistance(lat1, lon1, lat2, lon2) ==
    IF lat2 >= lat1 THEN lat2 - lat1 ELSE lat1 - lat2

\* d.distance ?? dflt
DistanceOr(d, dflt) == IF d.distance.given THEN d.distance.value ELSE dflt

hasCoords(d) == d.latitude.given /\ d.longitude.given

adminWithDist(adminDoctors, userLat, userLon) ==
    LET located == SelectSeq(adminDoctors, hasCoords)
    IN  [i \in 1..Len(located) |->
            [located[i] EXCEPT !.distance =
                Num(calculateDistance(userLat, userLon,
                                      located[i].latitude.value,
                                      located[i].longitude.value))]]

adminNoCoords(adminDoctors) ==
    LET noCoords(d) == ~hasCoords(d)
        unlocated == SelectSeq(adminDoctors, noCoords)
    IN  [i \in 1..Len(unlocated) |-> [unlocated[i] EXCEPT !.distance = NoNumber]]

adminNames(adminDoctors) ==
    { ToLowerCase(adminDoctors[i].name) : i \in 1..Len(adminDoctors) }

filtered(apiDoctors, adminDoctors) ==
    LET unknown(d) == ToLowerCase(d.name) \notin adminNames(adminDoctors)
    IN  SelectSeq(apiDoctors, unknown)

combined(apiDoctors, adminDoctors, userLat, userLon, limitKm) ==
    LET adminNear(d) == DistanceOr(d, 0) <= limitKm
        apiNear(d)   == DistanceOr(d, 999) <= limitKm
    IN  SelectSeq(adminWithDist(adminDoctors, userLat, userLon), adminNear)
        \o adminNoCoords(adminDoctors)
        \o SelectSeq(filtered(apiDoctors, adminDoctors), apiNear)

\* A comparator that orders by distance only.
compareDoctorsByDistance(a, b) ==
    DistanceOr(a, 999) - DistanceOr(b, 999)

\* The comparator passed to sort: verified first, then by distance.
compareDoctors(a, b) ==
    IF a.isVerified /\ ~b.isVerified THEN -1
    ELSE IF ~a.isVerified /\ b.isVerified THEN 1
    ELSE DistanceOr(a, 999) - DistanceOr(b, 999)

\* Array.prototype.sort with compareDoctors: a stable sort, computed by
\* inserting each element behind the elements that do not come after it.
InsertDoctor(sorted, d) ==
    LET k == Cardinality({ i \in 1..Len(sorted) : compareDoctors(sorted[i], d) <= 0 })
    IN  SubSeq(sorted, 1, k) \o <<d>> \o SubSeq(sorted, k + 1, Len(sorted))

RECURSIVE SortDoctorsTo(_, _)
SortDoctorsTo(list, n) ==
    IF n = 0 THEN <<>> ELSE InsertDoctor(SortDoctorsTo(list, n - 1), list[n])

SortDoctors(list) == SortDoctorsTo(list, Len(list))

mergeAndFilter(apiDoctors, adminDoctors, userLat, userLon, limitKm) ==
    SortDoctors(combined(apiDoctors, adminDoctors, userLat, userLon, limitKm))

\* The arguments of a call.
MergeArguments ==
    [apiDoctors : SeqsUpTo(ApiDoctorValues, MaxDoctors),
     adminDoctors : SeqsUpTo(AdminDoctorValues, MaxDoctors),
     userLat : UserLatValues, userLon : UserLonValues, limitKm : LimitValues]

InitMerge ==
    /\ mergeArgs \in MergeArguments
    /\ mergeResult = NoResult

\* One call mergeAndFilter(apiDoctors, adminDoctors, userLat, userLon, limitKm).
MergeAndFilter ==
    /\ mergeResult = NoResult
    /\ mergeResult' = [called |-> TRUE,
                       list |-> mergeAndFilter(mergeArgs.apiDoctors, mergeArgs.adminDoctors,
                                               mergeArgs.userLat, mergeArgs.userLon,
                                               mergeArgs.limitKm)]
    /\ UNCHANGED <<mergeArgs, routeVars, pcosVars, menoVars, cycleVars, apiVars, formVars,
                   searchVars>>

NextMerge == MergeAndFilter

(***************************************************************************)
(*                               DoctorForm                                *)
(*                                                                         *)
(* Of the form data the model keeps name, specialization and hospital; the *)
(* other optional text fields are handled by the code exactly as hospital  *)
(* is, and is_active is copied to the payload unchanged.                   *)
(***************************************************************************)

\* How many times handleSubmit is called in a run.
MaxSubmits == 2
\* How many times the form is mounted in a run.
MaxMounts == 2

\* String.prototype.trim on the texts typed into the form.
Trim(value) ==
    IF value = " " THEN ""
    ELSE IF value = " Dr A " THEN "Dr A"
    ELSE IF value = " Gynecologist" THEN "Gynecologist"
    ELSE IF value = " City Clinic " THEN "City Clinic"
    ELSE value

NameValues == {"", " ", "Dr A", " Dr A "}
SpecializationValues == {"", " ", " Gynecologist"}
HospitalValues == {"", " City Clinic "}

\* The doctor prop: absent when adding, a row of the table when editing.
NoDoctor == [given |-> FALSE]
DoctorProps ==
    {NoDoctor,
     [given |-> TRUE, id |-> "d1", name |-> "Dr A",
      specialization |-> "Gynecologist", hospital |-> "null"]}

\* doctor?.field || ""
InitialField(doctor, field) ==
    IF doctor.given /\ doctor[field] # "null" THEN doctor[field] ELSE ""

\* The initial value of useState formData.
InitialFormData(doctor) ==
    [name |-> InitialField(doctor, "name"),
     specialization |-> InitialField(doctor, "specialization"),
     hospital |-> InitialField(doctor, "hospital")]

\* A required-field test that does not trim.
isMissingUntrimmed(value) == value = ""

\* !value.trim()
isMissing(value) == Trim(value) = ""

\* value.trim() || null
TrimOrNull(value) == IF Trim(value) = "" THEN "null" ELSE Trim(value)

payload(data) ==
    [name |-> Trim(data.name),
     specialization |-> Trim(data.specialization),
     hospital |-> TrimOrNull(data.hospital)]

\* The request handleSubmit issues: an update of the row when doctor?.id is
\* set, an insert otherwise.
Request(doctor, data) ==
    IF doctor.given
    THEN [op |-> "update", id |-> doctor.id, payload |-> payload(data)]
    ELSE [op |-> "insert", id |-> "null", payload |-> payload(data)]

\* What the awaited request does: resolves with error null, resolves with an
\* error, or rejects.
RequestOutcomes == {"ok", "error", "rejects"}

\* The awaits a handleSubmit can be suspended at: which mounted instance
\* submitted, and whether it awaits an update or an insert.
FormAwaits == [instance : 1..MaxMounts, isUpdate : BOOLEAN]

InitForm ==
    /\ formMounted = FALSE
    /\ formInstance = 0
    /\ formDoctor = NoDoctor
    /\ formData = InitialFormData(NoDoctor)
    /\ formLoading = FALSE
    /\ formInFlight = {}
    /\ formRequests = <<>>
    /\ formToasts = <<>>
    /\ formSuccessCalls = 0
    /\ formSubmits = 0

FormOthersUnchanged ==
    UNCHANGED <<routeVars, pcosVars, menoVars, cycleVars, apiVars, mergeVars, searchVars>>

\* AdminDoctors renders <DoctorForm doctor={editingDoctor} .../>.
FormMount(doctor) ==
    /\ ~formMounted
    /\ formInstance < MaxMounts
    /\ formMounted' = TRUE
    /\ formInstance' = formInstance + 1
    /\ formDoctor' = doctor
    /\ formData' = InitialFormData(doctor)
    /\ formLoading' = FALSE
    /\ UNCHANGED <<formInFlight, formRequests, formToasts, formSuccessCalls, formSubmits>>
    /\ FormOthersUnchanged

\* onCancel: AdminDoctors stops rendering the form.
FormCancel ==
    /\ formMounted
    /\ formMounted' = FALSE
    /\ UNCHANGED <<formInstance, formDoctor, formData, formLoading, formInFlight,
                   formRequests, formToasts, formSuccessCalls, formSubmits>>
    /\ FormOthersUnchanged

\* handleChange(field, value)
handleChange(field, value) ==
    /\ formMounted
    /\ formData' = [formData EXCEPT ![field] = value]
    /\ UNCHANGED <<formMounted, formInstance, formDoctor, formLoading, formInFlight,
                   formRequests, formToasts, formSuccessCalls, formSubmits>>
    /\ FormOthersUnchanged

\* handleSubmit up to its await.  The submit button is disabled while
\* loading, and the browser does not submit while a field marked required
\* is empty.
handleSubmit ==
    /\ formMounted
    /\ ~formLoading
    /\ formData.name # "" /\ formData.specialization # ""
    /\ formSubmits < MaxSubmits
    /\ formSubmits' = formSubmits + 1
    /\ IF isMissing(formData.name) \/ isMissing(formData.specialization)
       THEN /\ formToasts' = Append(formToasts, "Required fields missing")
            /\ UNCHANGED <<formLoading, formInFlight, formRequests>>
       ELSE /\ formLoading' = TRUE
            /\ formRequests' = Append(formRequests, Request(formDoctor, formData))
            /\ formInFlight' = formInFlight \cup
                   {[instance |-> formInstance, isUpdate |-> formDoctor.given]}
            /\ UNCHANGED formToasts
    /\ UNCHANGED <<formMounted, formInstance, formDoctor, formData, formSuccessCalls>>
    /\ FormOthersUnchanged

\* The rest of handleSubmit once the awaited request settles.  onSuccess is
\* handleFormSuccess of AdminDoctors, which stops rendering the form;
\* setLoading(false) acts on the instance that submitted.
FormRequestSettles(request, outcome) ==
    /\ request \in formInFlight
    /\ formInFlight' = formInFlight \ {request}
    /\ formToasts' =
          IF outcome = "ok" THEN Append(formToasts, "Success")
          ELSE IF outcome = "error" THEN Append(formToasts, "Error")
          ELSE formToasts
    /\ formSuccessCalls' = IF outcome = "ok" THEN formSuccessCalls + 1 ELSE formSuccessCalls
    /\ formMounted' = IF outcome = "ok" THEN FALSE ELSE formMounted
    /\ formLoading' =
          IF outcome # "rejects" /\ request.instance = formInstance
          THEN FALSE ELSE formLoading
    /\ UNCHANGED <<formInstance, formDoctor, formData, formRequests, formSubmits>>
    /\ FormOthersUnchanged

NextForm ==
    \/ \E doctor \in DoctorProps : FormMount(doctor)
    \/ FormCancel
    \/ \E value \in NameValues : handleChange("name", value)
    \/ \E value \in SpecializationValues : handleChange("specialization", value)
    \/ \E value \in HospitalValues : handleChange("hospital", value)
    \/ handleSubmit
    \/ \E request \in FormAwaits, outcome \in RequestOutcomes :
           FormRequestSettles(request, outcome)

(***************************************************************************)
(*                      Doctors page: nearby search                        *)
(*                                                                         *)
(* The page after fetchAdminDoctors has delivered the admin doctors, in a  *)
(* browser that supports geolocation.  The user stands at latitude 0; the  *)
(* Overpass server knows two clinics, 3 km and 8 km away.                  *)
(***************************************************************************)

\* How many times runNearbySearch is called in a run.
MaxSearches == 3

DISTANCE_OPTIONS == {5, 10, 20, 50}

NoCoords == [given |-> FALSE]
Coords(lat, lon) == [given |-> TRUE, lat |-> lat, lon |-> lon]

\* The position getCurrentPosition reports.
DetectedCoords == Coords(0, 0)

\* The lists fetchAdminDoctors may have delivered.
AdminDoctorLists ==
    { <<>>,
      << [name |-> "Dr C", isVerified |-> TRUE, latitude |-> NoNumber,
          longitude |-> NoNumber, distance |-> NoNumber] >>,
      << [name |-> "Dr A", isVerified |-> TRUE, latitude |-> Num(8),
          longitude |-> Num(0), distance |-> NoNumber] >> }

\* What fetchOverpassDoctors resolves to for a radius of limitKm: the
\* clinics within the radius.
OverpassWorld ==
    << [name |-> "Dr B", isVerified |-> FALSE, latitude |-> NoNumber,
        longitude |-> NoNumber, distance |-> Num(3)],
       [name |-> "dr d", isVerified |-> FALSE, latitude |-> NoNumber,
        longitude |-> NoNumber, distance |-> Num(8)] >>

fetchOverpassDoctors(limitKm) ==
    LET inRadius(d) == d.distance.value <= limitKm
    IN  SelectSeq(OverpassWorld, inRadius)

\* What runNearbySearch passes to setNearbyDoctors once the fetch has
\* resolved with overpassDoctors.
NearbyResult(overpassDoctors, admins, coords, limitKm) ==
    LET merged == mergeAndFilter(overpassDoctors, admins, coords.lat, coords.lon, limitKm)
    IN  IF Len(merged) = 0 THEN admins ELSE merged

\* ... and what it passes to setLocationError.
NearbyError(overpassDoctors, admins, coords, limitKm) ==
    LET merged == mergeAndFilter(overpassDoctors, admins, coords.lat, coords.lon, limitKm)
    IN  IF Len(merged) # 0 THEN "null"
        ELSE IF Len(admins) = 0 THEN "No doctors found in this area"
        ELSE "No results within limit"

FetchOutcomes == {"resolves", "rejects"}

\* The runNearbySearch calls that can be awaiting their fetch.
SearchCalls == [id : 1..MaxSearches, limitKm : DISTANCE_OPTIONS]

InitSearch ==
    /\ distanceLimit = 10
    /\ userCoords = NoCoords
    /\ adminDoctorsState \in AdminDoctorLists
    /\ nearbyDoctors = <<>>
    /\ locationLoading = FALSE
    /\ locationError = "null"
    /\ geoPending = {}
    /\ searchInFlight = {}
    /\ searchStarted = 0
    /\ limitChangedInFlight = FALSE

SearchOthersUnchanged ==
    UNCHANGED <<routeVars, pcosVars, menoVars, cycleVars, apiVars, mergeVars, formVars>>

\* runNearbySearch up to its await.
runNearbySearch(limitKm) ==
    /\ locationLoading' = TRUE
    /\ locationError' = "null"
    /\ nearbyDoctors' = <<>>
    /\ searchStarted' = searchStarted + 1
    /\ searchInFlight' = searchInFlight \cup
           {[id |-> searchStarted + 1, limitKm |-> limitKm]}

\* handleAutoDetect: the button is disabled while locationLoading.
handleAutoDetect ==
    /\ ~locationLoading
    /\ searchStarted + Cardinality(geoPending) < MaxSearches
    /\ locationLoading' = TRUE
    /\ locationError' = "null"
    /\ geoPending' = geoPending \cup {distanceLimit}
    /\ UNCHANGED <<distanceLimit, userCoords, adminDoctorsState, nearbyDoctors,
                   searchInFlight, searchStarted, limitChangedInFlight>>
    /\ SearchOthersUnchanged

\* The success callback of getCurrentPosition, with the distanceLimit its
\* handleAutoDetect closed over.
GeolocationSucceeds(limitKm) ==
    /\ limitKm \in geoPending
    /\ geoPending' = geoPending \ {limitKm}
    /\ userCoords' = DetectedCoords
    /\ runNearbySearch(limitKm)
    /\ UNCHANGED <<distanceLimit, adminDoctorsState, limitChangedInFlight>>
    /\ SearchOthersUnchanged

\* The error callback of getCurrentPosition.
GeolocationFails(limitKm) ==
    /\ limitKm \in geoPending
    /\ geoPending' = geoPending \ {limitKm}
    /\ locationLoading' = FALSE
    /\ locationError' = "Location permission denied"
    /\ nearbyDoctors' = adminDoctorsState
    /\ UNCHANGED <<distanceLimit, userCoords, adminDoctorsState, searchInFlight,
                   searchStarted, limitChangedInFlight>>
    /\ SearchOthersUnchanged

\* A radius button is clicked: setDistanceLimit(d), and the effect on
\* [distanceLimit] runs runNearbySearch when userCoords is set.
SetDistanceLimit(d) ==
    /\ d # distanceLimit
    /\ userCoords.given => searchStarted + Cardinality(geoPending) < MaxSearches
    /\ distanceLimit' = d
    /\ limitChangedInFlight' = (limitChangedInFlight \/ searchInFlight # {})
    /\ IF userCoords.given
       THEN runNearbySearch(d)
       ELSE UNCHANGED <<locationLoading, locationError, nearbyDoctors,
                        searchStarted, searchInFlight>>
    /\ UNCHANGED <<userCoords, adminDoctorsState, geoPending>>
    /\ SearchOthersUnchanged

\* The fetch awaited by one runNearbySearch call settles, and the call runs
\* to its end.
OverpassSettles(call, outcome) ==
    /\ call \in searchInFlight
    /\ searchInFlight' = searchInFlight \ {call}
    /\ IF outcome = "resolves"
       THEN /\ nearbyDoctors' = NearbyResult(fetchOverpassDoctors(call.limitKm),
                                             adminDoctorsState, userCoords, call.limitKm)
            /\ locationError' =
                  LET error == NearbyError(fetchOverpassDoctors(call.limitKm),
                                           adminDoctorsState, userCoords, call.limitKm)
                  IN  IF error = "null" THEN locationError ELSE error
       ELSE /\ nearbyDoctors' = adminDoctorsState
            /\ locationError' = "Could not reach Overpass API"
    /\ locationLoading' = FALSE
    /\ UNCHANGED <<distanceLimit, userCoords, adminDoctorsState, geoPending,
                   searchStarted, limitChangedInFlight>>
    /\ SearchOthersUnchanged

NextSearch ==
    \/ handleAutoDetect
    \/ \E limitKm \in DISTANCE_OPTIONS : GeolocationSucceeds(limitKm)
    \/ \E limitKm \in DISTANCE_OPTIONS : GeolocationFails(limitKm)
    \/ \E d \in DISTANCE_OPTIONS : SetDistanceLimit(d)
    \/ \E call \in SearchCalls, outcome \in FetchOutcomes : OverpassSettles(call, outcome)

(***************************************************************************)
(*                            Specifications                               *)
(*                                                                         *)
(* Each component is checked on its own; the state of the other            *)
(* components is held at a fixed value meanwhile.                          *)
(***************************************************************************)

IdleRoute ==
    /\ loading = TRUE /\ user = "null" /\ isAdmin = "undefined"
    /\ requireAdmin = "undefined" /\ pathname = "/login"
    /\ historyUrl = "/login" /\ rendered = Loader
IdlePCOS      == pcosData = <<>> /\ pcosResult = NoResult
IdleMenopause == menoData = <<>> /\ menoResult = NoResult
IdleCycle     == cycleData = <<>> /\ cyclePrediction = NoResult
IdleApi       == InitApi
IdleMerge     == mergeArgs = <<>> /\ mergeResult = NoResult
IdleForm      == InitForm
IdleSearch    ==
    /\ distanceLimit = 10
    /\ userCoords = NoCoords
    /\ adminDoctorsState = <<>>
    /\ nearbyDoctors = <<>>
    /\ locationLoading = FALSE
    /\ locationError = "null"
    /\ geoPending = {}
    /\ searchInFlight = {}
    /\ searchStarted = 0
    /\ limitChangedInFlight = FALSE
IdlePage      == IdleApi /\ IdleMerge /\ IdleForm /\ IdleSearch

RouteInit == InitRoute /\ IdlePCOS /\ IdleMenopause /\ IdleCycle /\ IdlePage
SpecRoute == RouteInit /\ [][NextRoute]_vars

PCOSInit == InitPCOS /\ IdleRoute /\ IdleMenopause /\ IdleCycle /\ IdlePage
SpecPCOS == PCOSInit /\ [][NextPCOS]_vars

MenopauseInit == InitMenopause /\ IdleRoute /\ IdlePCOS /\ IdleCycle /\ IdlePage
SpecMenopause == MenopauseInit /\ [][NextMenopause]_vars

CycleInit == InitCycle /\ IdleRoute /\ IdlePCOS /\ IdleMenopause /\ IdlePage
SpecCycle == CycleInit /\ [][NextCycle]_vars

IdlePredictors == IdleRoute /\ IdlePCOS /\ IdleMenopause /\ IdleCycle

ApiInit == InitApi /\ IdlePredictors /\ IdleMerge /\ IdleForm /\ IdleSearch
SpecApi == ApiInit /\ [][NextApi]_vars

MergeInit == InitMerge /\ IdlePredictors /\ IdleApi /\ IdleForm /\ IdleSearch
SpecMerge == MergeInit /\ [][NextMerge]_vars

FormInit == InitForm /\ IdlePredictors /\ IdleApi /\ IdleMerge /\ IdleSearch
SpecForm == FormInit /\ [][NextForm]_vars

SearchInit == InitSearch /\ IdlePredictors /\ IdleApi /\ IdleMerge /\ IdleForm
SpecSearch == SearchInit /\ [][NextSearch]_vars

(***************************************************************************)
(*                     Properties of ProtectedRoute                        *)
(***************************************************************************)

\* C1: the children are rendered exactly in the states where loading is
\* false, user is non-null and (requireAdmin is true implies isAdmin is
\* exactly true); in every other combination they are not rendered.
C1_ChildrenOnlyWhenAuthorised ==
    (rendered = Children)
        <=> /\ ~loading
            /\ user # "null"
            /\ (requireAdmin = "true" => isAdmin = "true")

\* C1 witness: an admin route that rendered its children.
C1_Witness ==
    rendered = Children /\ requireAdmin = "true" /\ isAdmin = "true"

\* C2: the outcome is one of loader, redirect to /login, redirect to
\* /dashboard, children, chosen in the precedence loading, no user, admin
\* required and not admin, else children; an authenticated non-admin is never
\* sent to /login and an unauthenticated visitor never to /dashboard.
C2_OutcomePrecedence ==
    /\ rendered \in {Loader, NavigateLogin, NavigateDashboard, Children}
    /\ loading => rendered = Loader
    /\ (~loading /\ user = "null") => rendered = NavigateLogin
    /\ (~loading /\ user # "null" /\ requireAdmin = "true" /\ isAdmin # "true")
          => rendered = NavigateDashboard
    /\ (~loading /\ user # "null" /\ ~(requireAdmin = "true" /\ isAdmin # "true"))
          => rendered = Children
    /\ (user # "null" /\ isAdmin # "true") => rendered # NavigateLogin
    /\ user = "null" => rendered # NavigateDashboard

\* C2 witness: an unauthenticated visitor of an admin route, sent to /login.
C2_Witness ==
    /\ ~loading /\ user = "null" /\ requireAdmin = "true" /\ isAdmin # "true"
    /\ rendered = NavigateLogin

(***************************************************************************)
(*                       Properties of predictPCOS                         *)
(***************************************************************************)

Bit(b) == IF b THEN 1 ELSE 0

\* Twice the score as the claims state it:
\*   2*(cycle irregular) + 2*(follicleLeft + follicleRight >= 10)
\*   + (number of hairGrowth, skinDarkening, hairLoss, pimples set)
\*   + (bmi >= 25) + 0.5*weightGain + 0.5*fastFood + 0.5*(not regularExercise)
StatedPCOSScore2(d) ==
    4 * Bit(~d.cycleRegular)
    + 4 * Bit(d.follicleLeft + d.follicleRight >= 10)
    + 2 * Cardinality({f \in {"hairGrowth", "skinDarkening", "hairLoss", "pimples"} : d[f]})
    + 2 * Bit(d.bmi >= 25)
    + Bit(d.weightGain) + Bit(d.fastFood) + Bit(~d.regularExercise)

\* C3: hasPCOS is true exactly when the stated score is at least 4, and age,
\* weight, cycleLength and endometrium never influence the result.
C3_HasPCOSThreshold ==
    pcosResult.called =>
        /\ pcosResult.hasPCOS = (StatedPCOSScore2(pcosData) >= 8)
        /\ \A a \in AgeValues, w \in WeightValues,
              c \in CycleLengthValues, e \in EndometriumValues :
                predictPCOS([pcosData EXCEPT !.age = a, !.weight = w,
                                             !.cycleLength = c, !.endometrium = e])
                    = pcosResult

\* C3 witness: a score of exactly 4 detected, with a long cycle length.
C3_Witness ==
    /\ pcosResult.called /\ pcosResult.hasPCOS
    /\ StatedPCOSScore2(pcosData) = 8
    /\ pcosData.cycleLength = 45 /\ pcosData.age = 41

\* C4: severity is 'none' exactly when hasPCOS is false; otherwise 'low' when
\* riskPercentage < 50, 'medium' when 50 <= riskPercentage < 70, 'high' when
\* riskPercentage >= 70; the recommendations are those of that severity.
C4_SeverityBuckets ==
    pcosResult.called =>
        LET risk == pcosResult.riskPercentage
            sev  == pcosResult.severity
        IN  /\ (sev = "none") <=> ~pcosResult.hasPCOS
            /\ pcosResult.hasPCOS =>
                  /\ (sev = "low") <=> risk < 50
                  /\ (sev = "medium") <=> (50 <= risk /\ risk < 70)
                  /\ (sev = "high") <=> risk >= 70
            /\ pcosResult.recommendations = getPCOSRecommendations(sev)

\* C4 witness: a detection at the lower edge of the medium bucket.
C4_Witness ==
    /\ pcosResult.called /\ pcosResult.hasPCOS
    /\ pcosResult.riskPercentage = 50 /\ pcosResult.severity = "medium"
    /\ pcosResult.recommendations = PCOSRecsMedium

\* C5: the weighted total score never exceeds 9, so totalScore / 9 is at most
\* 1 before the percentage is clamped.
C5_TotalScoreAtMostNine ==
    pcosResult.called => totalScore2(pcosData) <= 2 * 9

\* C6: riskPercentage is an integer in 0..100 equal to
\* min(100, round(100 * totalScore / 9)), and at least 30 whenever hasPCOS.
C6_RiskPercentage ==
    pcosResult.called =>
        /\ pcosResult.riskPercentage \in 0..100
        /\ pcosResult.riskPercentage
              = Min(100, MathRound(100 * StatedPCOSScore2(pcosData), 2 * 9))
        /\ pcosResult.hasPCOS => pcosResult.riskPercentage >= 30

\* C6 witness: the lowest detected score, whose rounded percentage (44) is
\* above the floor of 30.
C6_Witness ==
    /\ pcosResult.called /\ pcosResult.hasPCOS
    /\ StatedPCOSScore2(pcosData) = 8
    /\ pcosResult.riskPercentage = 44

(***************************************************************************)
(*                     Properties of predictMenopause                      *)
(***************************************************************************)

\* C7: the stage is 'Post-Menopause' exactly when yearsSinceLastPeriod >= 1;
\* otherwise 'Peri-Menopause' exactly when age >= 40 and one of
\* irregularPeriods, missedPeriods, hotFlashes is set; otherwise
\* 'Pre-Menopause'.  hasMenopauseSymptoms and recommendations.needsDoctor are
\* true exactly when the stage is not 'Pre-Menopause'.
C7_MenopauseStage ==
    menoResult.called =>
        LET d    == menoData
            post == d.yearsSinceLastPeriod4 >= 4 * 1
            peri == /\ ~post
                    /\ d.age >= 40
                    /\ (d.irregularPeriods \/ d.missedPeriods \/ d.hotFlashes)
        IN  /\ (menoResult.stage = "Post-Menopause") <=> post
            /\ (menoResult.stage = "Peri-Menopause") <=> peri
            /\ (menoResult.stage = "Pre-Menopause") <=> (~post /\ ~peri)
            /\ menoResult.hasMenopauseSymptoms
                  <=> (menoResult.stage # "Pre-Menopause")
            /\ menoResult.recommendations.needsDoctor
                  <=> (menoResult.stage # "Pre-Menopause")

\* C7 witness: exactly one year without a period, below 40 and without any
\* symptom, classified Post-Menopause.
C7_Witness ==
    /\ menoResult.called
    /\ menoData.yearsSinceLastPeriod4 = 4 /\ menoData.age < 40
    /\ symptomScore(menoData) = 0
    /\ menoResult.stage = "Post-Menopause"
    /\ menoResult.recommendations.needsDoctor

\* C8: ageScore is in 0..4, hormoneScore in 0..4, symptomScore in 0..7 and
\* periodScore in 0..4, their sum never exceeds 19, and riskPercentage equals
\* round(100 * sum / 19) and lies in 0..100.
C8_MenopauseScores ==
    menoResult.called =>
        LET b   == menoResult.breakdown
            sum == b.ageScore + b.hormoneScore + b.symptomScore + b.periodScore
        IN  /\ b.ageScore \in 0..4
            /\ b.hormoneScore \in 0..4
            /\ b.symptomScore \in 0..7
            /\ b.periodScore \in 0..4
            /\ sum <= 19
            /\ menoResult.riskPercentage = MathRound(100 * sum, 19)
            /\ menoResult.riskPercentage \in 0..100

\* C8 witness: every component at its maximum, the sum 19 and the risk 100.
C8_Witness ==
    /\ menoResult.called
    /\ menoResult.breakdown = [ageScore |-> 4, hormoneScore |-> 4,
                                symptomScore |-> 7, periodScore |-> 4]
    /\ menoResult.riskPercentage = 100

(***************************************************************************)
(*                     Properties of predictNextCycle                      *)
(***************************************************************************)

\* C9: with an empty cycleHistory the prediction is lastPeriodStart + 28
\* days, confidence 'low', average 28, variability 0, not irregular, no PCOS
\* risk flag and no delay adjustment, whatever symptoms, stressLevel and
\* sleepHours are.
C9_EmptyHistoryDefault ==
    (cyclePrediction.called /\ Len(cycleData.cycleHistory) = 0) =>
        cyclePrediction =
            [called             |-> TRUE,
             predictedStartDate |-> cycleData.lastPeriodStart + 28,
             confidenceLevel    |-> "low",
             averageCycleLength |-> 28,
             cycleVariability10 |-> 0,
             isIrregular        |-> FALSE,
             pcosRiskFlag       |-> "false",
             delayAdjustment    |-> 0]

\* C9 witness: an empty history predicted with symptoms, high stress and
\* short sleep supplied.
C9_Witness ==
    /\ cyclePrediction.called /\ Len(cycleData.cycleHistory) = 0
    /\ cycleData.symptoms.given /\ cycleData.symptoms.acne = "true"
    /\ cycleData.stressLevel = Num(4) /\ cycleData.sleepHours = Num(5)

\* The six most recent entries of h (all of h when it has fewer).
StatedLastSix(h) ==
    LET n == Min(6, Len(h)) IN [i \in 1..n |-> h[Len(h) - n + i]]

\* a is the weighted mean of r with weights 1..n (the last entry weighted
\* n), rounded to the nearest integer, halves up:
\* a - 1/2 <= sum(i * r[i]) / sum(i) < a + 1/2.
IsRoundedWeightedMean(a, r) ==
    LET n  == Len(r)
        W  == SumSeq([i \in 1..n |-> i])
        S  == SumSeq([i \in 1..n |-> i * r[i]])
    IN  (2 * a - 1) * W <= 2 * S /\ 2 * S < (2 * a + 1) * W

\* n^2 times the population variance of r: the mean of the squared
\* deviations from the mean sum/n is sum((n * r[i] - sum)^2) / n^3.
PopulationVarianceN2(r) ==
    LET n   == Len(r)
        sum == SumSeq(r)
    IN  SumSeq([i \in 1..n |-> (n * r[i] - sum) * (n * r[i] - sum)]) \div n

\* v10 / 10 is exactly the population standard deviation of r.
IsPopulationStdDev(v10, r) ==
    v10 * v10 * Len(r) * Len(r) = 100 * PopulationVarianceN2(r)

\* v10 / 10 is the population standard deviation of r rounded to one decimal
\* place, halves up: (2 * v10 - 1) / 20 <= sd < (2 * v10 + 1) / 20.
IsRoundedPopulationStdDev(v10, r) ==
    LET n  == Len(r)
        N2 == PopulationVarianceN2(r)
    IN  /\ v10 >= 0
        /\ v10 = 0 \/ (2 * v10 - 1) * (2 * v10 - 1) * n * n <= 400 * N2
        /\ 400 * N2 < (2 * v10 + 1) * (2 * v10 + 1) * n * n

\* The fields of a prediction that depend on the recent cycles alone.
RecentFields(p) ==
    <<p.averageCycleLength, p.cycleVariability10, p.isIrregular, p.pcosRiskFlag>>

\* Histories with the same last six entries as cycleHistory give the same
\* averageCycleLength, cycleVariability, isIrregular and pcosRiskFlag: the
\* last six entries alone, and cycleHistory behind one more older entry.
SameLastSixSameFields ==
    LET h == cycleData.cycleHistory
    IN  /\ RecentFields(predictNextCycle([cycleData EXCEPT
                                           !.cycleHistory = StatedLastSix(h)]))
              = RecentFields(cyclePrediction)
        /\ Len(h) >= 6 =>
              \A o \in OlderValues :
                  RecentFields(predictNextCycle([cycleData EXCEPT
                                                 !.cycleHistory = <<o>> \o h]))
                      = RecentFields(cyclePrediction)

\* C10 as stated: for a non-empty history averageCycleLength is the rounded
\* weighted mean of the last n <= 6 entries with weights 1..n,
\* cycleVariability is their population standard deviation, and histories
\* that share the last six entries agree on averageCycleLength,
\* cycleVariability, isIrregular and pcosRiskFlag.
C10_Stated ==
    (cyclePrediction.called /\ Len(cycleData.cycleHistory) > 0) =>
        LET r == StatedLastSix(cycleData.cycleHistory)
        IN  /\ IsRoundedWeightedMean(cyclePrediction.averageCycleLength, r)
            /\ IsPopulationStdDev(cyclePrediction.cycleVariability10, r)
            /\ SameLastSixSameFields

\* C10 amended: as stated, except that cycleVariability is the population
\* standard deviation of the last n <= 6 entries rounded to one decimal place.
C10_RecentCycleStatistics ==
    (cyclePrediction.called /\ Len(cycleData.cycleHistory) > 0) =>
        LET r == StatedLastSix(cycleData.cycleHistory)
        IN  /\ IsRoundedWeightedMean(cyclePrediction.averageCycleLength, r)
            /\ IsRoundedPopulationStdDev(cyclePrediction.cycleVariability10, r)
            /\ SameLastSixSameFields

\* C10 witness: a history of more than six cycles whose oldest entry is long
\* and whose last six are regular with a standard deviation that is not a
\* multiple of 0.1 (26, 26, 26, 26, 26, 30: 1.4907...).
C10_Witness ==
    /\ cyclePrediction.called
    /\ cycleData.cycleHistory = <<36, 26, 26, 26, 26, 26, 30>>
    /\ cyclePrediction.averageCycleLength = 27
    /\ cyclePrediction.cycleVariability10 = 15
    /\ ~cyclePrediction.isIrregular

\* The population standard deviation of r is at most k (an integer >= 0).
StdDevAtMost(r, k) == PopulationVarianceN2(r) <= k * k * Len(r) * Len(r)

\* C11: for a non-empty history confidenceLevel is 'high' exactly when the
\* standard deviation of the last six cycles is <= 2 and the full history has
\* at least 3 entries; otherwise 'medium' exactly when that deviation is <= 5
\* or the full history has at least 6 entries; otherwise 'low'.
C11_ConfidenceLevel ==
    (cyclePrediction.called /\ Len(cycleData.cycleHistory) > 0) =>
        LET h      == cycleData.cycleHistory
            r      == StatedLastSix(h)
            high   == StdDevAtMost(r, 2) /\ Len(h) >= 3
            medium == ~high /\ (StdDevAtMost(r, 5) \/ Len(h) >= 6)
        IN  /\ (cyclePrediction.confidenceLevel = "high") <=> high
            /\ (cyclePrediction.confidenceLevel = "medium") <=> medium
            /\ (cyclePrediction.confidenceLevel = "low") <=> (~high /\ ~medium)

\* C11 witness: four cycles with a standard deviation of exactly 2, rated
\* 'high'.
C11_Witness ==
    /\ cyclePrediction.called
    /\ cycleData.cycleHistory = <<26, 26, 30, 30>>
    /\ cyclePrediction.cycleVariability10 = 20
    /\ cyclePrediction.confidenceLevel = "high"

\* C12: for a non-empty history isIrregular is true exactly when the standard
\* deviation of the last six cycles exceeds 7 or one of those cycles is
\* shorter than 21 or longer than 35 days.
C12_IsIrregular ==
    (cyclePrediction.called /\ Len(cycleData.cycleHistory) > 0) =>
        LET r == StatedLastSix(cycleData.cycleHistory)
        IN  cyclePrediction.isIrregular
                <=> \/ ~StdDevAtMost(r, 7)
                    \/ \E i \in 1..Len(r) : r[i] < 21 \/ r[i] > 35

\* C12 witness: a history irregular only by a short cycle (deviation 3).
C12_Witness ==
    /\ cyclePrediction.called
    /\ cycleData.cycleHistory = <<26, 20>>
    /\ cyclePrediction.cycleVariability10 = 30
    /\ cyclePrediction.isIrregular

\* C13: pcosRiskFlag is always a boolean (true or false, never undefined),
\* also when symptoms is omitted; it is true exactly when at least 3 of the
\* last six cycles exceed 35 days, or isIrregular holds together with
\* symptoms.acne and (cramps = 'severe' or mood = 'irritable').
C13_PcosRiskFlagBoolean ==
    cyclePrediction.called =>
        LET r    == StatedLastSix(cycleData.cycleHistory)
            sym  == cycleData.symptoms
            long == Cardinality({i \in 1..Len(r) : r[i] > 35})
        IN  /\ cyclePrediction.pcosRiskFlag \in {"true", "false"}
            /\ (cyclePrediction.pcosRiskFlag = "true")
                  <=> (Len(r) > 0 /\
                       \/ long >= 3
                       \/ /\ cyclePrediction.isIrregular
                          /\ sym.acne = "true"
                          /\ (sym.cramps = "severe" \/ sym.mood = "irritable"))

(***************************************************************************)
(*                 Properties of the predict*FromAPI calls                 *)
(***************************************************************************)

\* The local predictor's result for the data of the current call.
LocalResultOfCall ==
    IF apiKind = "pcos" THEN predictPCOS(apiData)
    ELSE IF apiKind = "menopause" THEN predictMenopause(apiData)
    ELSE predictNextCycle(apiData)

\* The promise is fulfilled with the local result plus
\* _meta = {usedAPI: false, error: message}.
IsLocalFallback(message) ==
    /\ apiPromise.state = "fulfilled"
    /\ DOMAIN apiPromise.value = (DOMAIN LocalResultOfCall) \cup {"_meta"}
    /\ \A f \in DOMAIN LocalResultOfCall : apiPromise.value[f] = LocalResultOfCall[f]
    /\ apiPromise.value["_meta"] = [usedAPI |-> FALSE, error |-> message]

\* C14: a call of predictPCOSFromAPI, predictMenopauseFromAPI or
\* predictCycleFromAPI never rejects and, once it has run to its end, has
\* resolved; when anything in the remote path threw (the fetch, the
\* not-ok response, reading or mapping the body) or the response was not
\* ok, the value is exactly the local predictor's result for the same
\* input plus _meta = {usedAPI: false, error: <message>}; _meta.usedAPI is
\* true only when the response was ok.
C14_LocalFallback ==
    /\ apiPromise.state # "rejected"
    /\ (apiPc = "done") <=> (apiPromise.state = "fulfilled")
    /\ apiThrown.thrown => IsLocalFallback(apiThrown.message)
    /\ (apiPc = "done" /\ apiResponseOk # "ok") =>
           apiThrown.thrown /\ IsLocalFallback(apiThrown.message)
    /\ (apiPromise.state = "fulfilled" /\ apiPromise.value["_meta"].usedAPI) =>
           apiResponseOk = "ok"

\* A menopause call whose response was not ok has resolved with the local
\* fallback.
C14_Witness ==
    /\ apiKind = "menopause"
    /\ apiPc = "done"
    /\ apiResponseOk = "notok"
    /\ apiPromise.state = "fulfilled"
    /\ apiPromise.value["_meta"] = [usedAPI |-> FALSE, error |-> "Backend validation failed"]

(***************************************************************************)
(*                       Properties of mergeAndFilter                      *)
(***************************************************************************)

\* The distance an entry is ordered by: its own, or 999 when it has none.
OrderingDistance(d) == IF d.distance.given THEN d.distance.value ELSE 999

\* C15: in the list returned by mergeAndFilter every verified doctor
\* precedes every unverified doctor, and within the verified and within the
\* unverified doctors the distances are non-decreasing, an entry without a
\* distance counting as 999.
C15_SortedVerifiedThenDistance ==
    mergeResult.called =>
        \A i, j \in 1..Len(mergeResult.list) :
            i < j =>
                /\ mergeResult.list[j].isVerified => mergeResult.list[i].isVerified
                /\ (mergeResult.list[i].isVerified = mergeResult.list[j].isVerified) =>
                       OrderingDistance(mergeResult.list[i])
                           <= OrderingDistance(mergeResult.list[j])

\* A call whose arguments list a far OSM doctor before a near one and an
\* admin doctor without coordinates before one with coordinates, all four
\* of which are returned.
C15_Witness ==
    /\ mergeResult.called
    /\ Len(mergeResult.list) = 4
    /\ Len(mergeArgs.apiDoctors) = 2
    /\ mergeArgs.apiDoctors[1].distance.value > mergeArgs.apiDoctors[2].distance.value
    /\ ~hasCoords(mergeArgs.adminDoctors[1])
    /\ hasCoords(mergeArgs.adminDoctors[2])

(***************************************************************************)
(*                         Properties of DoctorForm                        *)
(***************************************************************************)

\* C16: a call of handleSubmit while name or specialization is empty after
\* trimming issues no insert or update to the doctors table and calls
\* onSuccess not; it only raises the toast 'Required fields missing' and
\* leaves loading false and the form data as they were; every request ever
\* issued carries a non-empty name and specialization.
C16_RequiredFields ==
    [][ /\ (/\ formSubmits' # formSubmits
            /\ (Trim(formData.name) = "" \/ Trim(formData.specialization) = ""))
           => /\ formRequests' = formRequests
              /\ formInFlight' = formInFlight
              /\ formSuccessCalls' = formSuccessCalls
              /\ formToasts' = Append(formToasts, "Required fields missing")
              /\ ~formLoading /\ ~formLoading'
              /\ formData' = formData
        /\ \A i \in 1..Len(formRequests') :
              /\ formRequests'[i].payload.name # ""
              /\ formRequests'[i].payload.specialization # "" ]_vars

\* A form whose name is blank was submitted after an earlier submission had
\* issued a request: the toast was raised and no second request was issued.
C16_Witness ==
    /\ formSubmits = 2
    /\ Len(formRequests) = 1
    /\ formData.name = " "
    /\ ~formLoading
    /\ Len(formToasts) >= 1
    /\ formToasts[Len(formToasts)] = "Required fields missing"

(***************************************************************************)
(*                     Properties of the nearby search                     *)
(***************************************************************************)

\* What a search for the radius limitKm can leave in nearbyDoctors: the
\* merged list, or the admin doctors when the fetch failed.
ResultsOfSearchFor(limitKm) ==
    { NearbyResult(fetchOverpassDoctors(limitKm), adminDoctorsState, DetectedCoords, limitKm),
      adminDoctorsState }

\* C17: when distanceLimit was changed while a nearby search was in flight,
\* then once every outstanding request has settled nearbyDoctors is the
\* result of the search for the radius selected last.
C17_LatestLimitWins ==
    (limitChangedInFlight /\ searchInFlight = {} /\ geoPending = {}) =>
        nearbyDoctors \in ResultsOfSearchFor(distanceLimit)

=============================================================================
